---- MODULE Spec2Model ----
(***************************************************************************)
(* Model of todoist_alchemy.TodoistAlchemy: a synchronous client holding   *)
(* two list caches (_projects, _tasks) and a _loaded flag, talking to the  *)
(* Todoist REST service.  Every public method is one action; the HTTP      *)
(* responses it receives are chosen by the remote service, modelled as two *)
(* collections with server-assigned identifiers, where every request may   *)
(* also be answered with a failure status.                                 *)
(***************************************************************************)
EXTENDS Integers, Sequences, FiniteSets, TLC

VARIABLES
    phase,        \* "new": no client yet, "ready": constructed, "failed": __init__ raised
    api_token,    \* self.api_token
    projects,     \* self._projects
    tasks,        \* self._tasks
    loaded,       \* self._loaded
    srvProjects,  \* remote project collection
    srvTasks,     \* remote task collection
    nextPid,      \* next project id the remote service assigns
    nextTid,      \* next task id the remote service assigns
    lastCall      \* the last method call: its arguments, requests issued, outcome

vars == <<phase, api_token, projects, tasks, loaded,
          srvProjects, srvTasks, nextPid, nextTid, lastCall>>

----------------------------------------------------------------------------
(* Bounds *)

\* number of objects (projects and tasks together) the remote service lets
\* the client create
MaxCreates == 1

----------------------------------------------------------------------------
(* Values *)

\* Python values used as identifiers: an int n, the str holding the decimal
\* numeral of n, or None.
I(n) == [k |-> "int", n |-> n]

S(n) == [k |-> "str", n |-> n]

None == [k |-> "none", n |-> 0]

Numeral == <<"0", "1", "2", "3", "4", "5", "6", "7", "8", "9">>

\* str(x): both the int n and the str "n" give the text "n"; str(None) is "None"
Str(x) ==
    IF x.k = "none" THEN "None" ELSE Numeral[x.n + 1]

\* bool(x) as used by `if x:` / `x or y`: 0 and None are falsy, a numeral is
\* a non-empty str and hence truthy
Truthy(x) ==
    CASE x.k = "int" -> x.n # 0
      [] x.k = "str" -> TRUE
      [] OTHER -> FALSE

\* credentials: None, the empty str, or a non-empty token
NoToken == [k |-> "none", s |-> ""]

Tok(s) == [k |-> "str", s |-> s]

TokenValues == {NoToken, Tok(""), Tok("secret")}

TokenTruthy(t) == t.k = "str" /\ t.s # ""

\* names, task contents and response bodies
Names == {"X"}

\* contents given to create_task, and to update_task
Contents == {"a"}

NewContents == {"Renamed"}

Bodies == {"not found"}

\* statuses the remote service answers a request it does not serve with
FailStatuses == {404, 500}

\* identifiers a caller may pass to delete_*/update_task
IdArgs == {I(n) : n \in 1..(1 + MaxCreates)} \cup {S(1)}

\* project references a caller may pass to create_task
ProjectRefs == {None, I(1)}

\* project references a caller may pass to get_tasks
ProjectFilters == {None, I(0), I(1), S(1)}

----------------------------------------------------------------------------
(* The record of a call *)

Req(method, path, status) == [m |-> method, path |-> path, status |-> status]

NoError == [prefix |-> "", text |-> ""]

\* TodoistAlchemyError(f"<prefix>{resp.text}"): the exception holds one
\* message made of a fixed prefix and the response text
TodoistAlchemyError(prefix, text) == [prefix |-> prefix, text |-> text]

\* a call: the method, its id and text arguments, the requests it issued in
\* order, whether it raised and with what, and what it returned (a list, or
\* an object held in a sequence of length one); cred holds the credentials
\* (argument, environment variable) a construction was given
Call(op, id, text, reqs, raised, err, retList, retObj) ==
    [op |-> op, id |-> id, text |-> text, reqs |-> reqs, raised |-> raised,
     err |-> err, retList |-> retList, retObj |-> retObj, cred |-> <<>>]

\* a response: its status and, for a failure, its text
Ok(status) == [status |-> status, text |-> ""]

Failures == [status : FailStatuses, text : Bodies]

ListResponses == {Ok(200)} \cup Failures

WriteResponses == {Ok(200), Ok(204)} \cup Failures

----------------------------------------------------------------------------
(* The remote service *)

\* what the remote service holds when the client is constructed: one project
\* with one task in it
InitialRemote ==
    [projects |-> <<[id |-> S(1), name |-> "X"]>>,
     tasks |-> <<[id |-> S(1), content |-> "a", project_id |-> S(1)]>>,
     nextPid |-> 2, nextTid |-> 2]

\* number of objects created so far
Created == (nextPid - InitialRemote.nextPid) + (nextTid - InitialRemote.nextTid)

\* POST projects {"name": name}: the created project
srv_new_project(name) == [id |-> S(nextPid), name |-> name]

\* POST tasks payload: the created task; a payload without project_id gives
\* a task without a project reference
srv_new_task(payload) ==
    [id |-> S(nextTid), content |-> payload.content,
     project_id |-> payload.project_id]

\* the remote collection without the object {id} of the URL
srv_without(coll, id) == SelectSeq(coll, LAMBDA o : Str(o.id) # Str(id))

\* whether tasks/{id} names a remote task
srv_has_task(id) == \E i \in DOMAIN srvTasks : Str(srvTasks[i].id) = Str(id)

\* GET tasks/{id}
srv_task(id) ==
    srvTasks[CHOOSE i \in DOMAIN srvTasks : Str(srvTasks[i].id) = Str(id)]

\* POST tasks/{id} kwargs: the remote collection with the fields applied
srv_updated(id, content) ==
    [i \in DOMAIN srvTasks |->
        IF Str(srvTasks[i].id) = Str(id)
        THEN [srvTasks[i] EXCEPT !.content = content]
        ELSE srvTasks[i]]

----------------------------------------------------------------------------
(* __init__ *)

\* api_token or os.environ.get("TODOIST_API_TOKEN")
resolve_token(arg, env) == IF TokenTruthy(arg) THEN arg ELSE env

\* faulty variant: the credential check left out
token_missing_never(tok) == FALSE

\* if not self.api_token: raise
token_missing(tok) == ~TokenTruthy(tok)

init(arg, env) ==
    /\ phase = "new"
    /\ LET tok == resolve_token(arg, env) IN
       IF token_missing(tok)
       THEN /\ phase' = "failed"
            /\ lastCall' = [Call("__init__", None, "", <<>>, TRUE,
                   TodoistAlchemyError("No Todoist API token provided.", ""),
                   <<>>, <<>>) EXCEPT !.cred = <<arg, env>>]
            /\ UNCHANGED <<api_token, projects, tasks, loaded>>
       ELSE /\ phase' = "ready"
            /\ api_token' = tok
            /\ projects' = <<>>
            /\ tasks' = <<>>
            /\ loaded' = FALSE
            /\ lastCall' = [Call("__init__", None, "", <<>>, FALSE, NoError,
                                 <<>>, <<>>) EXCEPT !.cred = <<arg, env>>]
    /\ UNCHANGED <<srvProjects, srvTasks, nextPid, nextTid>>

----------------------------------------------------------------------------
(* sync *)

\* the outcome of sync() on caches ps, ts and flag ld when the project fetch
\* is answered rP and the task fetch rT
sync_outcome(ps, ts, ld, rP, rT) ==
    IF rP.status = 200
    THEN IF rT.status = 200
         THEN [projects |-> srvProjects, tasks |-> srvTasks, loaded |-> TRUE,
               reqs |-> <<Req("GET", "projects", rP.status),
                          Req("GET", "tasks", rT.status)>>,
               raised |-> FALSE, err |-> NoError]
         ELSE [projects |-> srvProjects, tasks |-> ts, loaded |-> ld,
               reqs |-> <<Req("GET", "projects", rP.status),
                          Req("GET", "tasks", rT.status)>>,
               raised |-> TRUE,
               err |-> TodoistAlchemyError("Error fetching tasks: ", rT.text)]
    ELSE [projects |-> ps, tasks |-> ts, loaded |-> ld,
          reqs |-> <<Req("GET", "projects", rP.status)>>,
          raised |-> TRUE,
          err |-> TodoistAlchemyError("Error fetching projects: ", rP.text)]

\* the task fetch is only issued after a successful project fetch
SyncAnswers ==
    {<<rP, rT>> \in ListResponses \X ListResponses :
        rP.status # 200 => rT = Ok(200)}

sync(rP, rT) ==
    /\ phase = "ready"
    /\ LET o == sync_outcome(projects, tasks, loaded, rP, rT) IN
       /\ projects' = o.projects
       /\ tasks' = o.tasks
       /\ loaded' = o.loaded
       /\ lastCall' = Call("sync", None, "", o.reqs, o.raised, o.err, <<>>, <<>>)
    /\ UNCHANGED <<phase, api_token, srvProjects, srvTasks, nextPid, nextTid>>

----------------------------------------------------------------------------
(* Project operations *)

\* faulty variant: every get syncs
needs_sync_always(ld) == TRUE

\* if not self._loaded
needs_sync(ld) == ~ld

\* no sync: the caches and the flag as they are, no request
no_sync(ps, ts, ld) ==
    [projects |-> ps, tasks |-> ts, loaded |-> ld, reqs |-> <<>>,
     raised |-> FALSE, err |-> NoError]

get_projects(rP, rT) ==
    /\ phase = "ready"
    /\ LET o == IF needs_sync(loaded)
                THEN sync_outcome(projects, tasks, loaded, rP, rT)
                ELSE no_sync(projects, tasks, loaded) IN
       /\ projects' = o.projects
       /\ tasks' = o.tasks
       /\ loaded' = o.loaded
       /\ lastCall' = Call("get_projects", None, "", o.reqs, o.raised, o.err,
                           IF o.raised THEN <<>> ELSE o.projects, <<>>)
    /\ UNCHANGED <<phase, api_token, srvProjects, srvTasks, nextPid, nextTid>>

\* faulty variant: the created project is returned but not appended
create_project_cache_dropped(ps, r, project) == ps

\* self._projects after create_project got the answer r carrying project
create_project_cache(ps, r, project) ==
    IF r.status = 200 THEN Append(ps, project) ELSE ps

create_project(name, r) ==
    /\ phase = "ready"
    /\ r.status = 200 => Created < MaxCreates
    /\ LET project == srv_new_project(name) IN
       /\ projects' = create_project_cache(projects, r, project)
       /\ IF r.status = 200
          THEN /\ srvProjects' = Append(srvProjects, project)
               /\ nextPid' = nextPid + 1
               /\ lastCall' = Call("create_project", None, name,
                      <<Req("POST", "projects", r.status)>>, FALSE, NoError,
                      <<>>, <<project>>)
          ELSE /\ UNCHANGED <<srvProjects, nextPid>>
               /\ lastCall' = Call("create_project", None, name,
                      <<Req("POST", "projects", r.status)>>, TRUE,
                      TodoistAlchemyError("Error creating project: ", r.text),
                      <<>>, <<>>)
    /\ UNCHANGED <<phase, api_token, tasks, loaded, srvTasks, nextTid>>

\* faulty variant: ids compared without str()
remove_by_id_raw(cache, id) == SelectSeq(cache, LAMBDA o : o.id # id)

\* [o for o in cache if str(o["id"]) != str(id)]
remove_by_id(cache, id) == SelectSeq(cache, LAMBDA o : Str(o.id) # Str(id))

\* faulty variant: the entry is removed before the status is looked at
delete_project_cache_eager(ps, r, id) ==
    SelectSeq(ps, LAMBDA o : Str(o.id) # Str(id))

\* self._projects after delete_project got the answer r
delete_project_cache(ps, r, id) ==
    IF r.status \in {204, 200} THEN remove_by_id(ps, id) ELSE ps

delete_project(id, r) ==
    /\ phase = "ready"
    /\ projects' = delete_project_cache(projects, r, id)
    /\ IF r.status \in {204, 200}
       THEN /\ srvProjects' = srv_without(srvProjects, id)
            /\ lastCall' = Call("delete_project", id, "",
                   <<Req("DELETE", "projects/{id}", r.status)>>, FALSE, NoError,
                   <<>>, <<>>)
       ELSE /\ UNCHANGED srvProjects
            /\ lastCall' = Call("delete_project", id, "",
                   <<Req("DELETE", "projects/{id}", r.status)>>, TRUE,
                   TodoistAlchemyError("Error deleting project: ", r.text),
                   <<>>, <<>>)
    /\ UNCHANGED <<phase, api_token, tasks, loaded, srvTasks, nextPid, nextTid>>

----------------------------------------------------------------------------
(* Task operations *)

\* [t for t in self._tasks if str(t.get("project_id")) == str(project_id)]
filter_by_project(ts, project_id) ==
    SelectSeq(ts, LAMBDA t : Str(t.project_id) = Str(project_id))

\* what get_tasks returns from the cache ts: `if project_id:` selects the
\* filtered list, anything falsy the whole cache
get_tasks_result(ts, project_id) ==
    IF Truthy(project_id) THEN filter_by_project(ts, project_id) ELSE ts

get_tasks(project_id, rP, rT) ==
    /\ phase = "ready"
    /\ LET o == IF needs_sync(loaded)
                THEN sync_outcome(projects, tasks, loaded, rP, rT)
                ELSE no_sync(projects, tasks, loaded) IN
       /\ projects' = o.projects
       /\ tasks' = o.tasks
       /\ loaded' = o.loaded
       /\ lastCall' = Call("get_tasks", project_id, "", o.reqs, o.raised, o.err,
                           IF o.raised THEN <<>>
                           ELSE get_tasks_result(o.tasks, project_id), <<>>)
    /\ UNCHANGED <<phase, api_token, srvProjects, srvTasks, nextPid, nextTid>>

\* payload = {"content": content}; project_id is added only when truthy
create_task_payload(content, project_id) ==
    [content |-> content,
     project_id |-> IF Truthy(project_id) THEN project_id ELSE None]

\* self._tasks after create_task got the answer r carrying new_task
create_task_cache(ts, r, new_task) ==
    IF r.status = 200 THEN Append(ts, new_task) ELSE ts

create_task(content, project_id, r) ==
    /\ phase = "ready"
    /\ r.status = 200 => Created < MaxCreates
    /\ LET new_task == srv_new_task(create_task_payload(content, project_id)) IN
       /\ tasks' = create_task_cache(tasks, r, new_task)
       /\ IF r.status = 200
          THEN /\ srvTasks' = Append(srvTasks, new_task)
               /\ nextTid' = nextTid + 1
               /\ lastCall' = Call("create_task", project_id, content,
                      <<Req("POST", "tasks", r.status)>>, FALSE, NoError,
                      <<>>, <<new_task>>)
          ELSE /\ UNCHANGED <<srvTasks, nextTid>>
               /\ lastCall' = Call("create_task", project_id, content,
                      <<Req("POST", "tasks", r.status)>>, TRUE,
                      TodoistAlchemyError("Error creating task: ", r.text),
                      <<>>, <<>>)
    /\ UNCHANGED <<phase, api_token, projects, loaded, srvProjects, nextPid>>

\* index of the first t with str(t["id"]) == str(task_id), 0 when there is none
first_match(ts, task_id) ==
    IF \E i \in DOMAIN ts : Str(ts[i].id) = Str(task_id)
    THEN CHOOSE i \in DOMAIN ts :
            /\ Str(ts[i].id) = Str(task_id)
            /\ \A j \in 1..(i - 1) : Str(ts[j].id) # Str(task_id)
    ELSE 0

\* faulty variant: ids compared without str()
replace_first_raw(ts, task_id, updated_task) ==
    [i \in DOMAIN ts |->
        IF ts[i].id = task_id /\ \A j \in 1..(i - 1) : ts[j].id # task_id
        THEN updated_task ELSE ts[i]]

\* the for/break loop: the first matching entry becomes updated_task
replace_first(ts, task_id, updated_task) ==
    IF first_match(ts, task_id) = 0 THEN ts
    ELSE [ts EXCEPT ![first_match(ts, task_id)] = updated_task]

\* faulty variant: the cache is updated once the update is accepted, whatever the
\* fetch answers
update_task_cache_eager(ts, task_id, r, r2, updated_task) ==
    IF r.status \in {204, 200}
    THEN [i \in DOMAIN ts |->
             IF Str(ts[i].id) = Str(task_id) /\ \A j \in 1..(i - 1) : Str(ts[j].id) # Str(task_id)
             THEN updated_task ELSE ts[i]]
    ELSE ts

\* self._tasks after update_task got r to the update and r2 to the fetch
update_task_cache(ts, task_id, r, r2, updated_task) ==
    IF r.status \in {204, 200} /\ r2.status = 200
    THEN replace_first(ts, task_id, updated_task)
    ELSE ts

\* the requests update_task issues: the fetch follows a successful update
update_task_reqs(r, r2) ==
    IF r.status \in {204, 200}
    THEN <<Req("POST", "tasks/{id}", r.status), Req("GET", "tasks/{id}", r2.status)>>
    ELSE <<Req("POST", "tasks/{id}", r.status)>>

\* the remote service accepts an update or a fetch only of a task it holds,
\* and the fetch is only issued after a successful update
UpdateAnswers(task_id) ==
    {<<r, r2>> \in WriteResponses \X ListResponses :
        /\ r.status \in {204, 200} => srv_has_task(task_id)
        /\ r.status \notin {204, 200} => r2 = Ok(200)}

update_task(task_id, content, r, r2) ==
    /\ phase = "ready"
    /\ <<r, r2>> \in UpdateAnswers(task_id)
    /\ srvTasks' = IF r.status \in {204, 200}
                   THEN srv_updated(task_id, content) ELSE srvTasks
    /\ IF r.status \in {204, 200}
       THEN LET updated_task ==
                   [srv_task(task_id) EXCEPT !.content = content] IN
            /\ tasks' = update_task_cache(tasks, task_id, r, r2, updated_task)
            /\ IF r2.status = 200
               THEN lastCall' = Call("update_task", task_id, content,
                        update_task_reqs(r, r2), FALSE, NoError,
                        <<>>, <<updated_task>>)
               ELSE lastCall' = Call("update_task", task_id, content,
                        update_task_reqs(r, r2), TRUE,
                        TodoistAlchemyError("Error fetching updated task: ", r2.text),
                        <<>>, <<>>)
       ELSE /\ tasks' = update_task_cache(tasks, task_id, r, r2, None)
            /\ lastCall' = Call("update_task", task_id, content,
                   update_task_reqs(r, r2), TRUE,
                   TodoistAlchemyError("Error updating task: ", r.text),
                   <<>>, <<>>)
    /\ UNCHANGED <<phase, api_token, projects, loaded, srvProjects, nextPid, nextTid>>

\* self._tasks after delete_task got the answer r
delete_task_cache(ts, r, task_id) ==
    IF r.status \in {204, 200} THEN remove_by_id(ts, task_id) ELSE ts

delete_task(task_id, r) ==
    /\ phase = "ready"
    /\ tasks' = delete_task_cache(tasks, r, task_id)
    /\ IF r.status \in {204, 200}
       THEN /\ srvTasks' = srv_without(srvTasks, task_id)
            /\ lastCall' = Call("delete_task", task_id, "",
                   <<Req("DELETE", "tasks/{id}", r.status)>>, FALSE, NoError,
                   <<>>, <<>>)
       ELSE /\ UNCHANGED srvTasks
            /\ lastCall' = Call("delete_task", task_id, "",
                   <<Req("DELETE", "tasks/{id}", r.status)>>, TRUE,
                   TodoistAlchemyError("Error deleting task: ", r.text),
                   <<>>, <<>>)
    /\ UNCHANGED <<phase, api_token, projects, loaded, srvProjects, nextPid, nextTid>>

----------------------------------------------------------------------------
(* Specification *)

Init ==
    /\ phase = "new"
    /\ api_token = NoToken
    /\ projects = <<>>
    /\ tasks = <<>>
    /\ loaded = FALSE
    /\ srvProjects = InitialRemote.projects
    /\ srvTasks = InitialRemote.tasks
    /\ nextPid = InitialRemote.nextPid
    /\ nextTid = InitialRemote.nextTid
    /\ lastCall = [op |-> "", id |-> None, text |-> "", reqs |-> <<>>,
                   raised |-> FALSE, err |-> NoError, retList |-> <<>>,
                   retObj |-> <<>>, cred |-> <<>>]

Next ==
    \/ \E arg \in TokenValues, env \in TokenValues : init(arg, env)
    \/ \E a \in SyncAnswers : sync(a[1], a[2])
    \/ \E a \in SyncAnswers : get_projects(a[1], a[2])
    \/ \E name \in Names, r \in ListResponses : create_project(name, r)
    \/ \E id \in IdArgs, r \in WriteResponses : delete_project(id, r)
    \/ \E project_id \in ProjectFilters, a \in SyncAnswers :
          get_tasks(project_id, a[1], a[2])
    \/ \E content \in Contents, project_id \in ProjectRefs, r \in ListResponses :
          create_task(content, project_id, r)
    \/ \E task_id \in IdArgs, content \in NewContents,
          r \in WriteResponses, r2 \in ListResponses :
          update_task(task_id, content, r, r2)
    \/ \E task_id \in IdArgs, r \in WriteResponses : delete_task(task_id, r)

Spec == Init /\ [][Next]_vars

----------------------------------------------------------------------------
(* Properties *)

\* the request kinds of a call, in order
Paths(c) == [i \in DOMAIN c.reqs |-> <<c.reqs[i].m, c.reqs[i].path>>]

\* the status of the last response a call received
LastStatus(c) == c.reqs[Len(c.reqs)].status

\* whether request q was answered with success: 200, or 204 for an update or
\* a delete
Success(q) ==
    \/ q.status = 200
    \/ q.status = 204 /\ q.path \in {"projects/{id}", "tasks/{id}"}
                      /\ q.m \in {"POST", "DELETE"}

\* whether some request of call c was answered with a non-success status
NonSuccess(c) == \E i \in DOMAIN c.reqs : ~Success(c.reqs[i])

Matches(o, id) == Str(o.id) = Str(id)

\* C1: sync() either succeeds, replacing both caches with the fetched
\* collections and marking the client synced, or raises and leaves the
\* project cache, the task cache and the synced flag as they were.
C1_SyncAtomic ==
    [][lastCall'.op = "sync" =>
        IF NonSuccess(lastCall')
        THEN lastCall'.raised /\ UNCHANGED <<projects, tasks, loaded>>
        ELSE /\ ~lastCall'.raised
             /\ projects' = srvProjects
             /\ tasks' = srvTasks
             /\ loaded']_vars

\* C2: a create_project, create_task, update_task, delete_project or
\* delete_task call that got a non-success status raises and leaves both
\* caches and the synced flag as they were before the call.
C2_FailureLeavesCache ==
    [][(/\ lastCall'.op \in {"create_project", "create_task", "update_task",
                             "delete_project", "delete_task"}
        /\ NonSuccess(lastCall'))
       => /\ lastCall'.raised
          /\ UNCHANGED <<projects, tasks, loaded>>]_vars

\* C2 witness: a delete_project that failed while the cache held the project
C2_Witness ==
    /\ lastCall.op = "delete_project"
    /\ lastCall.raised
    /\ LastStatus(lastCall) = 404
    /\ \E i \in DOMAIN projects : Matches(projects[i], lastCall.id)

\* C3: the status received is recoverable from the error a method raises:
\* two calls raising the same error value received the same status.
C3_ErrorCarriesStatus ==
    [][(/\ lastCall.raised /\ lastCall.reqs # <<>>
        /\ lastCall'.raised /\ lastCall'.reqs # <<>>
        /\ lastCall'.err = lastCall.err)
       => LastStatus(lastCall') = LastStatus(lastCall)]_vars

\* one step of get_projects/get_tasks as the code takes it: on an unsynced
\* client one project fetch and, if that succeeded, one task fetch; on a
\* synced client no request; and the synced flag is never cleared
C4_Step ==
    /\ (lastCall'.op \in {"get_projects", "get_tasks"} /\ ~loaded) =>
          \/ /\ Paths(lastCall') = <<<<"GET", "projects">>>>
             /\ lastCall'.reqs[1].status # 200
          \/ /\ Paths(lastCall') = <<<<"GET", "projects">>, <<"GET", "tasks">>>>
             /\ lastCall'.reqs[1].status = 200
    /\ (lastCall'.op \in {"get_projects", "get_tasks"} /\ loaded) =>
          lastCall'.reqs = <<>> /\ ~lastCall'.raised
    /\ loaded => loaded'

\* C4 (amended): a get on a never-synced client performs one sync (a project
\* fetch, then a task fetch only if the project fetch succeeded); once a sync
\* has succeeded no later get issues a request, whatever calls come between.
C4_LazySyncOnce == [][C4_Step]_vars

\* C4 as stated: a get on a never-synced client issues one project fetch and
\* one task fetch, and a get on a synced client issues no request.
C4_Original ==
    [][/\ (lastCall'.op \in {"get_projects", "get_tasks"} /\ ~loaded) =>
             Paths(lastCall') = <<<<"GET", "projects">>, <<"GET", "tasks">>>>
       /\ (lastCall'.op \in {"get_projects", "get_tasks"} /\ loaded) =>
             lastCall'.reqs = <<>>
       /\ loaded => loaded']_vars

\* C4 witness: a get that issued no request, on a client that synced and
\* created an object since
C4_Witness ==
    /\ lastCall.op \in {"get_projects", "get_tasks"}
    /\ lastCall.reqs = <<>>
    /\ ~lastCall.raised
    /\ loaded
    /\ Created > 0

\* get_projects() right after a successful create_project(name) returns a
\* list holding an entry with that name and the id the create returned
C5_Step ==
    (/\ lastCall.op = "create_project" /\ ~lastCall.raised
     /\ lastCall'.op = "get_projects")
    => /\ ~lastCall'.raised
       /\ \E i \in DOMAIN lastCall'.retList :
             /\ lastCall'.retList[i].name = lastCall.text
             /\ lastCall'.retList[i].id = lastCall.retObj[1].id

\* C5 (amended): on a client that has synced, get_projects() after a
\* successful create_project("X") returns, without a request, a list holding
\* an entry named "X" with the id the create call returned.
C5_CreateThenGet ==
    [][loaded => (C5_Step /\ (lastCall'.op = "get_projects" => lastCall'.reqs = <<>>))]_vars

\* C5 as stated: the same, whether or not the client had synced before.
C5_Original == [][C5_Step]_vars

\* C5 witness: a synced client whose create_project("X") just succeeded and
\* whose cache, which get_projects() returns, holds the created project
C5_Witness ==
    /\ lastCall.op = "create_project"
    /\ ~lastCall.raised
    /\ loaded
    /\ lastCall.text = "X"
    /\ lastCall.retObj[1].name = "X"
    /\ \E i \in DOMAIN projects : projects[i] = lastCall.retObj[1]

\* C6: get_tasks(project_id) returns the cached tasks, in cache order, whose
\* project reference has the same str() as project_id, for every number or
\* string passed; get_tasks() without project_id returns the whole cache.
C6_FilterByProject ==
    (lastCall.op = "get_tasks" /\ ~lastCall.raised) =>
        lastCall.retList =
            IF lastCall.id = None THEN tasks
            ELSE SelectSeq(tasks, LAMBDA t : Str(t.project_id) = Str(lastCall.id))

\* whether i is the first position of ts holding the id
FirstAt(ts, i, id) ==
    /\ Matches(ts[i], id)
    /\ \A j \in 1..(i - 1) : ~Matches(ts[j], id)

\* update_task returned the object the service holds for the id
C7_ReturnsFetched ==
    /\ Len(lastCall'.retObj) = 1
    /\ Matches(lastCall'.retObj[1], lastCall'.id)
    /\ lastCall'.retObj[1].content = lastCall'.text
    /\ \E i \in DOMAIN srvTasks' : srvTasks'[i] = lastCall'.retObj[1]

\* C7 (amended): a successful update_task returns the fetched object; the
\* first cached entry with the id, if there is one, is replaced by it at the
\* same position; every other entry and the length are unchanged, and when
\* no cached entry has the id the cache is unchanged.
C7_UpdateReplacesFirst ==
    [][(lastCall'.op = "update_task" /\ ~lastCall'.raised) =>
        /\ C7_ReturnsFetched
        /\ Len(tasks') = Len(tasks)
        /\ \A i \in DOMAIN tasks :
              tasks'[i] = IF FirstAt(tasks, i, lastCall'.id)
                          THEN lastCall'.retObj[1] ELSE tasks[i]
        /\ UNCHANGED <<projects, loaded>>]_vars

\* C7 as stated: in every client state a successful update_task leaves the
\* cache holding the fetched object in place of the original.
C7_Original ==
    [][(lastCall'.op = "update_task" /\ ~lastCall'.raised) =>
        /\ C7_ReturnsFetched
        /\ \E i \in DOMAIN tasks :
              /\ FirstAt(tasks, i, lastCall'.id)
              /\ tasks' = [tasks EXCEPT ![i] = lastCall'.retObj[1]]]_vars

\* C7 witness: a successful update_task given an int id, after which the
\* cache of two tasks holds the returned object under a str id
C7_Witness ==
    /\ lastCall.op = "update_task"
    /\ ~lastCall.raised
    /\ lastCall.id.k = "int"
    /\ Len(tasks) = 2
    /\ \E i \in DOMAIN tasks : tasks[i] = lastCall.retObj[1] /\ tasks[i].id.k = "str"

\* C8: when the update is accepted (200 or 204) and the follow-up fetch is
\* not, update_task raises after exactly those two requests and changes no
\* cache, while the remote task has the new content.
C8_FetchFailureSurfaced ==
    [][(/\ lastCall'.op = "update_task"
        /\ Len(lastCall'.reqs) >= 2
        /\ lastCall'.reqs[1].status \in {200, 204}
        /\ lastCall'.reqs[2].status # 200)
       => /\ lastCall'.raised
          /\ lastCall'.err.prefix = "Error fetching updated task: "
          /\ Paths(lastCall') = <<<<"POST", "tasks/{id}">>, <<"GET", "tasks/{id}">>>>
          /\ UNCHANGED <<projects, tasks, loaded>>
          /\ \E i \in DOMAIN srvTasks' :
                /\ Matches(srvTasks'[i], lastCall'.id)
                /\ srvTasks'[i].content = lastCall'.text]_vars

\* C8 witness: update_task raised on the fetch; the cache holds the task
\* with its old content while the service holds the new one
C8_Witness ==
    /\ lastCall.op = "update_task"
    /\ lastCall.raised
    /\ Len(lastCall.reqs) = 2
    /\ \E i \in DOMAIN tasks, j \in DOMAIN srvTasks :
          /\ Matches(tasks[i], lastCall.id)
          /\ Matches(srvTasks[j], lastCall.id)
          /\ tasks[i].content = "a"
          /\ srvTasks[j].content = "Renamed"

\* the cache new is the cache old without the entries having the id, the
\* others in their order
Removed(old, new, id) ==
    /\ new = SelectSeq(old, LAMBDA o : Str(o.id) # Str(id))
    /\ \A i \in DOMAIN new : Str(new[i].id) # Str(id)

\* C9: after a delete_project (delete_task) answered 200 or 204 the project
\* (task) cache holds no entry with the id, compared as str; the other
\* entries are retained in order, the other cache is unchanged, and a
\* get_projects() (get_tasks()) that follows returns no such entry.
C9_DeleteRemoves ==
    [][/\ (lastCall'.op = "delete_project" /\ LastStatus(lastCall') \in {200, 204}) =>
             /\ ~lastCall'.raised
             /\ Removed(projects, projects', lastCall'.id)
             /\ UNCHANGED <<tasks, loaded>>
       /\ (lastCall'.op = "delete_task" /\ LastStatus(lastCall') \in {200, 204}) =>
             /\ ~lastCall'.raised
             /\ Removed(tasks, tasks', lastCall'.id)
             /\ UNCHANGED <<projects, loaded>>
       /\ (/\ lastCall.op = "delete_project" /\ ~lastCall.raised
           /\ lastCall'.op = "get_projects") =>
             \A i \in DOMAIN lastCall'.retList :
                ~Matches(lastCall'.retList[i], lastCall.id)
       /\ (/\ lastCall.op = "delete_task" /\ ~lastCall.raised
           /\ lastCall'.op = "get_tasks") =>
             \A i \in DOMAIN lastCall'.retList :
                ~Matches(lastCall'.retList[i], lastCall.id)]_vars

\* C9 witness: a delete_project given an int id and answered 204, after two
\* projects existed; the synced cache holds the other project only
C9_Witness ==
    /\ lastCall.op = "delete_project"
    /\ ~lastCall.raised
    /\ LastStatus(lastCall) = 204
    /\ lastCall.id.k = "int"
    /\ loaded
    /\ nextPid = 3
    /\ Len(projects) = 1
    /\ ~Matches(projects[1], lastCall.id)

\* C10: construction without a credential raises the configuration error;
\* construction issues no request, and a successful one leaves both caches
\* empty and the client unsynced.
C10_Construction ==
    lastCall.op = "__init__" =>
        /\ lastCall.reqs = <<>>
        /\ lastCall.cred = <<NoToken, NoToken>> =>
              /\ lastCall.raised
              /\ phase = "failed"
              /\ lastCall.err.prefix = "No Todoist API token provided."
        /\ lastCall.raised <=> phase = "failed"
        /\ ~lastCall.raised =>
              /\ phase = "ready"
              /\ TokenTruthy(api_token)
              /\ projects = <<>>
              /\ tasks = <<>>
              /\ ~loaded

\* C10 witness: a construction given neither argument nor environment
\* variable, which raised
C10_Witness ==
    /\ lastCall.op = "__init__"
    /\ lastCall.cred = <<NoToken, NoToken>>
    /\ lastCall.raised
    /\ phase = "failed"

====
